---- MODULE Spec2Model ----
(***************************************************************************)
(* Model of googlesearch/__init__.py: the date-range helpers               *)
(* (format_date, get_date_range_tbs), the request issuer (_req) and the    *)
(* paginated generator search().                                           *)
(*                                                                         *)
(* Strings that the code builds are built here too (TLA+ strings with \o). *)
(* An href is a sequence of string tokens, so that split("&"),             *)
(* replace("/url?q=", "") and unquote() are computed and not assumed; a    *)
(* link is the token sequence that is left, the empty sequence being the   *)
(* empty string "".                                                        *)
(*                                                                         *)
(* What a result container holds is read inside the for loop (lines        *)
(* 145-153) and nowhere before, so the model draws the content of a        *)
(* container when the loop reaches it; the number of containers of a page  *)
(* is drawn when the page is parsed (line 141).                            *)
(*                                                                         *)
(* Parameters of search() that are only passed through to requests.get     *)
(* (term, lang, proxy, timeout, safe, ssl_verify, region) and the length   *)
(* of one sleep (sleep_interval) decide no branch of the code and are not  *)
(* part of the state.                                                      *)
(*                                                                         *)
(* Three specifications: Spec, calls of search() with the default offset   *)
(* and no date filter; SpecArgs, calls with date arguments and an offset,  *)
(* for few results; SpecDates, calls of get_date_range_tbs by itself.      *)
(***************************************************************************)
EXTENDS Integers, Sequences, FiniteSets, TLC

(* ------------------------------ bounds --------------------------------- *)

\* largest num_results a call is made with
MaxNumResults == 5
\* number of distinct target URLs the remote source can return
NumUrls == 2
\* largest number of result containers on one page
MaxPageLen == 3
\* largest start_num a call with a date filter or an offset is made with
MaxStartNum == 1
\* largest num_results a call with a date filter or an offset is made with
MaxArgsNumResults == 2

(* ------------------------- Python values -------------------------------- *)

\* Python's None (for a str-or-None value); no input string equals it
None == "<None>"

\* truth value of a str-or-None value: None and "" are false
Truthy(s) == s # None /\ s # ""

(* ------------------------- format_date ---------------------------------- *)

\* result of dateutil.parser.parse on the sample inputs: a date, or
\* ParserError for a string that is no date
parse(date_input) ==
    CASE date_input = "10-20-2004"       -> [ok |-> TRUE, year |-> 2004, month |-> 10, day |-> 20]
      [] date_input = "2004-10-20"       -> [ok |-> TRUE, year |-> 2004, month |-> 10, day |-> 20]
      [] date_input = "October 20, 2004" -> [ok |-> TRUE, year |-> 2004, month |-> 10, day |-> 20]
      [] date_input = "10/20/2004"       -> [ok |-> TRUE, year |-> 2004, month |-> 10, day |-> 20]
      [] date_input = "2004-10-21"       -> [ok |-> TRUE, year |-> 2004, month |-> 10, day |-> 21]
      [] date_input = "1/2/2003"         -> [ok |-> TRUE, year |-> 2003, month |-> 1, day |-> 2]
      [] date_input = "01/02/2003"       -> [ok |-> TRUE, year |-> 2003, month |-> 1, day |-> 2]
      [] OTHER                           -> [ok |-> FALSE, year |-> 0, month |-> 0, day |-> 0]

\* zero-padded decimal of width 2 (%m, %d)
Pad2(n) == IF n < 10 THEN "0" \o ToString(n) ELSE ToString(n)

\* zero-padded decimal of width 4 (%Y)
Pad4(n) ==
    IF n < 10 THEN "000" \o ToString(n)
    ELSE IF n < 100 THEN "00" \o ToString(n)
    ELSE IF n < 1000 THEN "0" \o ToString(n)
    ELSE ToString(n)

\* dt.strftime("%m/%d/%Y")
strftime(dt) == Pad2(dt.month) \o "/" \o Pad2(dt.day) \o "/" \o Pad4(dt.year)

\* a function result: a returned value or a raised exception
Return(v) == [raised |-> "", value |-> v]
Raise(e) == [raised |-> e, value |-> None]

\* format_date with the except clause dropped in favour of a made-up date
format_date_NoRaise(date_input) ==
    IF date_input = None THEN Raise("TypeError")
    ELSE IF parse(date_input).ok THEN Return(strftime(parse(date_input)))
    ELSE Return("01/01/1970")

\* format_date: mm/dd/yyyy of the parsed date, ValueError when the input
\* does not parse (parse(None) is a TypeError, which is not caught)
format_date(date_input) ==
    IF date_input = None THEN Raise("TypeError")
    ELSE IF parse(date_input).ok THEN Return(strftime(parse(date_input)))
    ELSE Raise("ValueError")

(* ------------------------- get_date_range_tbs --------------------------- *)

\* the f-string of the return statement
TbsToken(start_date_formatted, end_date_formatted) ==
    "cdr:1,cd_min:" \o start_date_formatted \o ",cd_max:" \o end_date_formatted

\* the formatting half of get_date_range_tbs, once both dates are set
FormatBoth(sd, ed) ==
    IF format_date(sd).raised # "" THEN Raise(format_date(sd).raised)
    ELSE IF format_date(ed).raised # "" THEN Raise(format_date(ed).raised)
    ELSE Return(TbsToken(format_date(sd).value, format_date(ed).value))

\* get_date_range_tbs without "if not end_date: end_date = start_date"
get_date_range_tbs_NoEndDefault(sd, ed) ==
    IF Truthy(sd) \/ Truthy(ed)
    THEN FormatBoth(IF ~Truthy(sd) THEN ed ELSE sd, ed)
    ELSE Return(None)

\* get_date_range_tbs: None when neither date is given, else the token,
\* a single given date used for both ends
get_date_range_tbs(sd, ed) ==
    IF Truthy(sd) \/ Truthy(ed)
    THEN LET s1 == IF ~Truthy(sd) THEN ed ELSE sd
             e1 == IF ~Truthy(ed) THEN s1 ELSE ed
         IN  FormatBoth(s1, e1)
    ELSE Return(None)

(* ------------------------- result pages --------------------------------- *)

\* an absent tag
NoTag == "<no tag>"

\* href="/url?q=https%3A//<i>&sa=U": the wrapped, percent-encoded target i
WrappedHref(i) == <<"/url?q=", "https", "%3A", "//", ToString(i), "&", "sa=U">>

\* the result containers (div.ezO2md) a page is made of: one per target,
\* and one without an anchor
Containers ==
    {[link_tag |-> TRUE, href |-> WrappedHref(i),
      title_tag |-> "title", description_tag |-> "description"] : i \in 1..NumUrls}
    \cup {[link_tag |-> FALSE, href |-> <<>>,
           title_tag |-> NoTag, description_tag |-> NoTag]}

\* s.split("&")[0]: the part before the first "&"
RECURSIVE SplitAmp0(_)
SplitAmp0(s) ==
    IF s = <<>> \/ Head(s) = "&" THEN <<>>
    ELSE <<Head(s)>> \o SplitAmp0(Tail(s))

\* s.replace("/url?q=", ""): every occurrence removed
RECURSIVE RemoveUrlQ(_)
RemoveUrlQ(s) ==
    IF s = <<>> THEN <<>>
    ELSE IF Head(s) = "/url?q=" THEN RemoveUrlQ(Tail(s))
    ELSE <<Head(s)>> \o RemoveUrlQ(Tail(s))

\* unquote of one token: a percent escape is decoded
UnquoteToken(t) == IF t = "%3A" THEN ":" ELSE t

\* urllib.parse.unquote
unquote(s) == [i \in 1..Len(s) |-> UnquoteToken(s[i])]

\* the link of a result container ("" when it has no anchor)
LinkOf(result) ==
    IF result.link_tag
    THEN unquote(RemoveUrlQ(SplitAmp0(result.href)))
    ELSE <<>>

\* title and description of a result container ("" when the tag is absent)
TitleOf(result) ==
    IF result.link_tag /\ result.title_tag # NoTag THEN result.title_tag ELSE ""
DescriptionOf(result) ==
    IF result.description_tag # NoTag THEN result.description_tag ELSE ""

(* ------------------------- state ---------------------------------------- *)

VARIABLES
    num_results,     \* parameter
    advanced,        \* parameter
    start_num,       \* parameter
    unique,          \* parameter
    start_date,      \* parameter
    end_date,        \* parameter
    date_range_tbs,  \* local: the tbs token, or None
    start,           \* local: offset of the next page
    fetched_results, \* local: count of results yielded
    fetched_links,   \* local: set of links yielded
    result_block,    \* local: the containers of the page the for loop has
                     \* reached so far, in document order
    block_len,       \* len(result_block): the containers the page holds
    new_results,     \* local: results yielded from this page
    pc,              \* position of the generator
    err,             \* the exception the call ended with, "" if none
    output,          \* history: the items yielded, in order
    requests,        \* history: the _req calls, in order
    page_base,       \* history: number of items yielded before this page
    remote_links,    \* history: the links of all containers reached so far
    sleeps           \* history: number of sleep() calls

vars == <<num_results, advanced, start_num, unique, start_date, end_date,
          date_range_tbs, start, fetched_results, fetched_links,
          result_block, block_len, new_results, pc, err, output, requests,
          page_base, remote_links, sleeps>>

params == <<num_results, advanced, start_num, unique, start_date, end_date>>

\* date arguments search() is called with: none, the empty string, a date,
\* a string that is no date
SearchDates == {None, "", "2004-10-20", "not a date"}

\* date arguments get_date_range_tbs is called with on its own
DateInputs == {None, "", "10-20-2004", "2004-10-20", "October 20, 2004",
               "10/20/2004", "2004-10-21", "1/2/2003", "tomorrowish"}

\* state of the locals before line 131 has run
LocalsInit ==
    /\ date_range_tbs = None
    /\ start = 0
    /\ fetched_results = 0
    /\ fetched_links = {}
    /\ result_block = <<>>
    /\ block_len = 0
    /\ new_results = 0
    /\ err = ""
    /\ output = <<>>
    /\ requests = <<>>
    /\ page_base = 0
    /\ remote_links = {}
    /\ sleeps = 0

\* a call of search() without a date filter and from offset 0 (the
\* defaults): the generator is created, its body has not run
Init ==
    /\ num_results \in -1..MaxNumResults
    /\ advanced \in BOOLEAN
    /\ start_num = 0
    /\ unique \in BOOLEAN
    /\ start_date = None
    /\ end_date = None
    /\ pc = "start"
    /\ LocalsInit

\* a call of search() with date arguments and an offset, for few results
InitArgs ==
    /\ num_results \in -1..MaxArgsNumResults
    /\ advanced \in BOOLEAN
    /\ start_num \in 0..MaxStartNum
    /\ unique \in BOOLEAN
    /\ start_date \in SearchDates
    /\ end_date \in SearchDates
    /\ pc = "start"
    /\ LocalsInit

(* ------------------------- search --------------------------------------- *)

\* lines 131-135: the date filter is resolved, the locals are set
Start ==
    /\ pc = "start"
    /\ LET r == get_date_range_tbs(start_date, end_date) IN
         IF r.raised # ""
         THEN /\ pc' = "error"
              /\ err' = r.raised
              /\ UNCHANGED <<date_range_tbs, start>>
         ELSE /\ pc' = "while"
              /\ date_range_tbs' = r.value
              /\ start' = start_num
              /\ UNCHANGED err
    /\ fetched_results' = 0
    /\ fetched_links' = {}
    /\ UNCHANGED <<params, result_block, block_len, new_results, output,
                   requests, page_base, remote_links, sleeps>>

\* "results" argument of _req
Wanted == num_results - start

\* _req's params dict: num is results + 2, tbs only when set
ReqParams(results, start_, tbs) ==
    IF Truthy(tbs)
    THEN [num |-> results + 2, start |-> start_, tbs |-> tbs]
    ELSE [num |-> results + 2, start |-> start_]

\* outcomes of requests.get + raise_for_status
Statuses == {"ok", "HTTPError", "ConnectionError"}

\* while condition with <= for <
WhileCond_OffByOne == fetched_results <= num_results

\* line 137
WhileCond == fetched_results < num_results

\* line 137, condition false: the generator returns
WhileExit ==
    /\ pc = "while"
    /\ ~WhileCond
    /\ pc' = "done"
    /\ UNCHANGED <<params, date_range_tbs, start, fetched_results,
                   fetched_links, result_block, block_len, new_results, err,
                   output, requests, page_base, remote_links, sleeps>>

\* Request with one more try after a failed request
Request_Retry ==
    /\ pc = "while"
    /\ WhileCond
    /\ \E status \in Statuses, len \in 0..MaxPageLen :
         /\ requests' = Append(requests,
                [results |-> Wanted, params |-> ReqParams(Wanted, start, date_range_tbs),
                 status |-> status])
         /\ IF status = "ok"
            THEN /\ result_block' = <<>>
                 /\ block_len' = len
                 /\ page_base' = Len(output)
                 /\ new_results' = 0
                 /\ pc' = "for"
                 /\ UNCHANGED err
            ELSE /\ len = 0
                 /\ IF requests # <<>> /\ requests[Len(requests)].status # "ok"
                    THEN pc' = "error" /\ err' = status
                    ELSE pc' = "while" /\ UNCHANGED err
                 /\ UNCHANGED <<result_block, block_len, page_base, new_results>>
    /\ UNCHANGED <<params, date_range_tbs, start, fetched_results,
                   fetched_links, output, remote_links, sleeps>>

\* lines 137-142: one page is requested and parsed; a failed request
\* (raise_for_status, or an exception of get) ends the call
Request ==
    /\ pc = "while"
    /\ WhileCond
    /\ \E status \in Statuses, len \in 0..MaxPageLen :
         /\ requests' = Append(requests,
                [results |-> Wanted, params |-> ReqParams(Wanted, start, date_range_tbs),
                 status |-> status])
         /\ IF status = "ok"
            THEN /\ result_block' = <<>>
                 /\ block_len' = len
                 /\ page_base' = Len(output)
                 /\ new_results' = 0
                 /\ pc' = "for"
                 /\ UNCHANGED err
            ELSE /\ len = 0
                 /\ pc' = "error"
                 /\ err' = status
                 /\ UNCHANGED <<result_block, block_len, page_base, new_results>>
    /\ UNCHANGED <<params, date_range_tbs, start, fetched_results,
                   fetched_links, output, remote_links, sleeps>>

\* the test of line 155 without the membership test's effect
IsDuplicate_Never(link) == link \in fetched_links /\ ~unique

\* line 155
IsDuplicate(link) == link \in fetched_links /\ unique

\* fetched_links.add left out
AddLink_Forgotten(links, link) == links

\* line 158
AddLink(links, link) == links \cup {link}

\* the yield with the two branches swapped
YieldItem_Swapped(result) ==
    IF ~advanced
    THEN [kind |-> "SearchResult", url |-> LinkOf(result),
          title |-> TitleOf(result), description |-> DescriptionOf(result)]
    ELSE [kind |-> "str", value |-> LinkOf(result)]

\* lines 164-167: the item yielded for a result
YieldItem(result) ==
    IF advanced
    THEN [kind |-> "SearchResult", url |-> LinkOf(result),
          title |-> TitleOf(result), description |-> DescriptionOf(result)]
    ELSE [kind |-> "str", value |-> LinkOf(result)]

\* lines 144-156: the next result is a duplicate and is skipped
Skip ==
    /\ pc = "for"
    /\ Len(result_block) < block_len
    /\ \E result \in Containers :
         /\ IsDuplicate(LinkOf(result))
         /\ result_block' = Append(result_block, result)
         /\ remote_links' = remote_links \cup {LinkOf(result)}
    /\ UNCHANGED <<params, date_range_tbs, start, fetched_results,
                   fetched_links, block_len, new_results, pc, err, output,
                   requests, page_base, sleeps>>

\* lines 144-167: the next result is counted and yielded
Yield ==
    /\ pc = "for"
    /\ Len(result_block) < block_len
    /\ \E result \in Containers :
         /\ ~IsDuplicate(LinkOf(result))
         /\ result_block' = Append(result_block, result)
         /\ remote_links' = remote_links \cup {LinkOf(result)}
         /\ fetched_links' = AddLink(fetched_links, LinkOf(result))
         /\ output' = Append(output, YieldItem(result))
    /\ fetched_results' = fetched_results + 1
    /\ new_results' = new_results + 1
    /\ pc' = "yielded"
    /\ UNCHANGED <<params, date_range_tbs, start, block_len, err, requests,
                   page_base, sleeps>>

\* break condition with > for >=
BreakCond_OffByOne == fetched_results > num_results

\* line 169
BreakCond == fetched_results >= num_results

\* lines 169-170, no break: the for loop goes on
Continue ==
    /\ pc = "yielded"
    /\ ~BreakCond
    /\ pc' = "for"
    /\ UNCHANGED <<params, date_range_tbs, start, fetched_results,
                   fetched_links, result_block, block_len, new_results, err,
                   output, requests, page_base, remote_links, sleeps>>

\* line 172
PageExhausted == new_results = 0

\* lines 172-176: the for loop is over (end of page, or break at 170);
\* the generator returns after a page without new results, else the offset
\* moves on by 10 and the generator sleeps
PageEnd ==
    /\ \/ pc = "for" /\ Len(result_block) = block_len
       \/ pc = "yielded" /\ BreakCond
    /\ IF PageExhausted
       THEN /\ pc' = "done"
            /\ UNCHANGED <<start, sleeps>>
       ELSE /\ start' = start + 10
            /\ sleeps' = sleeps + 1
            /\ pc' = "while"
    /\ UNCHANGED <<params, date_range_tbs, fetched_results, fetched_links,
                   result_block, block_len, new_results, err, output,
                   requests, page_base, remote_links>>

Next ==
    \/ Start
    \/ WhileExit
    \/ Request
    \/ Skip
    \/ Yield
    \/ Continue
    \/ PageEnd

Spec == Init /\ [][Next]_vars

SpecArgs == InitArgs /\ [][Next]_vars

(* ------------------------- the date filter on its own -------------------- *)

\* a call of get_date_range_tbs(start_date, end_date) by itself
InitDates ==
    /\ start_date \in DateInputs
    /\ end_date \in DateInputs
    /\ num_results = 10
    /\ advanced = FALSE
    /\ start_num = 0
    /\ unique = FALSE
    /\ pc = "call"
    /\ LocalsInit

\* lines 41-51: the call returns the token (or None), or raises
CallGetDateRangeTbs ==
    /\ pc = "call"
    /\ LET r == get_date_range_tbs(start_date, end_date) IN
         /\ pc' = IF r.raised # "" THEN "raised" ELSE "returned"
         /\ err' = r.raised
         /\ date_range_tbs' = r.value
    /\ UNCHANGED <<params, start, fetched_results, fetched_links,
                   result_block, block_len, new_results, output, requests,
                   page_base, remote_links, sleeps>>

NextDates == CallGetDateRangeTbs

SpecDates == InitDates /\ [][NextDates]_vars

(* ------------------------- properties ------------------------------------ *)

\* the link of a yielded item
ItemLink(item) == IF item.kind = "str" THEN item.value ELSE item.url

\* the links yielded, in order
OutputLinks == [i \in 1..Len(output) |-> ItemLink(output[i])]

\* the links of a sequence of result containers, in document order
Links(block) == [i \in 1..Len(block) |-> LinkOf(block[i])]

\* the elements of a sequence
Range(seq) == {seq[i] : i \in 1..Len(seq)}

\* a sequence without the later occurrences of its elements
RECURSIVE Distinct(_, _)
Distinct(seq, seen) ==
    IF seq = <<>> THEN <<>>
    ELSE IF Head(seq) \in seen THEN Distinct(Tail(seq), seen)
    ELSE <<Head(seq)>> \o Distinct(Tail(seq), seen \cup {Head(seq)})

\* the first n elements of a sequence
FirstN(seq, n) == SubSeq(seq, 1, IF n < Len(seq) THEN n ELSE Len(seq))

\* the call has ended after a page that produced no new result
EndedExhausted == pc = "done" /\ requests # <<>> /\ Len(output) = page_base

TypeOK ==
    /\ pc \in {"start", "while", "for", "yielded", "done", "error",
               "call", "returned", "raised"}
    /\ fetched_results = Len(output)

\* C1 (as stated): the number of items yielded never exceeds num_results,
\* and a run that ends without an error and without an exhausted page has
\* yielded exactly num_results items.
C1_YieldedAtMostNumResults ==
    /\ Len(output) <= num_results
    /\ (pc = "done" /\ ~EndedExhausted) => Len(output) = num_results

\* C1 (amended): for num_results >= 0 the number of items yielded never
\* exceeds num_results, and a run that ends without an error and without an
\* exhausted page has yielded exactly num_results items.
C1_YieldedAtMostNonNegNumResults ==
    num_results >= 0 =>
        /\ Len(output) <= num_results
        /\ (pc = "done" /\ ~EndedExhausted) => Len(output) = num_results

C1_Witness ==
    /\ pc = "done"
    /\ ~EndedExhausted
    /\ num_results >= 3
    /\ Len(requests) >= 2
    /\ Len(output) = num_results

\* C2: with unique set no link is yielded twice in one call, and a result
\* whose link was already yielded is passed over with the count of yielded
\* results, the count of new results of the page and the output unchanged.
C2_UniqueYieldsNoLinkTwice ==
    /\ [](unique =>
            \A i, j \in 1..Len(output) :
                i # j => ItemLink(output[i]) # ItemLink(output[j]))
    /\ [][(/\ unique
           /\ Len(result_block') = Len(result_block) + 1
           /\ LinkOf(result_block'[Len(result_block')]) \in Range(OutputLinks))
          => (/\ fetched_results' = fetched_results
              /\ new_results' = new_results
              /\ output' = output
              /\ pc' = "for")]_vars

C2_Witness ==
    /\ unique
    /\ pc = "done"
    /\ Len(requests) >= 2
    /\ Len(output) >= 2
    /\ Len(output) > page_base
    /\ \E i \in 1..Len(result_block) :
          LinkOf(result_block[i]) \in Range(SubSeq(OutputLinks, 1, page_base))

\* C3 (as stated): a call with num_results = 5 against a remote source
\* whose pages hold 3 distinct results ends with 3 items yielded, whatever
\* unique is.
C3_FiveWantedThreeDistinct ==
    (num_results = 5 /\ pc = "done" /\ Cardinality(remote_links) = 3)
        => Len(output) = 3

\* C3 (amended): with unique set, a call that wants more results than the
\* pages it fetched hold distinct links ends with exactly one item per
\* distinct link (3 for num_results = 5 and 3 distinct links), after at most
\* one request more than there are distinct links, and ends in an error only
\* if a request failed.
C3_UniqueEndsAtDistinctCount ==
    unique =>
        /\ Len(requests) <= Cardinality(remote_links) + 1
        /\ (pc = "done" /\ Cardinality(remote_links) < num_results)
              => /\ Len(output) = Cardinality(remote_links)
                 /\ Range(OutputLinks) = remote_links
        /\ pc = "error"
              => \/ requests = <<>> /\ err = "ValueError"
                 \/ requests # <<>> /\ requests[Len(requests)].status # "ok"

C3_Witness ==
    /\ unique
    /\ num_results = 5
    /\ pc = "done"
    /\ Cardinality(remote_links) = 3
    /\ Len(output) = 3
    /\ Len(requests) >= 3

\* the links a page adds to the output when it is processed to its end
PageLinks(block, before) ==
    IF unique
    THEN Distinct(SelectSeq(Links(block), LAMBDA l : l \notin before), {})
    ELSE Links(block)

\* C4: a failed request is the last request of the call, the call ends with
\* its error, nothing is requested or yielded afterwards, and what has been
\* yielded is what the pages fetched before hold: the last of them was
\* processed to its end.
C4_FailedRequestAborts ==
    /\ [](\A i \in 1..Len(requests) :
            requests[i].status # "ok" =>
                /\ i = Len(requests)
                /\ pc = "error"
                /\ err = requests[i].status
                /\ Len(output) < num_results
                /\ Len(result_block) = block_len
                /\ SubSeq(OutputLinks, page_base + 1, Len(output))
                     = PageLinks(result_block,
                                 Range(SubSeq(OutputLinks, 1, page_base))))
    /\ [][pc = "error" => (requests' = requests /\ output' = output /\ pc' = pc)]_vars
    /\ [][\A i \in 1..Len(output) : Len(output') >= i /\ output'[i] = output[i]]_vars

C4_Witness ==
    /\ pc = "error"
    /\ err = "HTTPError"
    /\ Len(requests) >= 3
    /\ Len(output) > page_base
    /\ page_base >= 1

\* a date argument that is given and is no date
Unparsable(d) == Truthy(d) /\ ~parse(d).ok

\* C5: a call with a start_date or end_date that does not parse ends in
\* ValueError as soon as it runs, and a call that ended in ValueError has
\* issued no request and yielded nothing.
C5_BadDateFailsBeforeAnyRequest ==
    /\ (pc # "start" /\ (Unparsable(start_date) \/ Unparsable(end_date)))
          => (pc = "error" /\ err = "ValueError")
    /\ err = "ValueError" => (requests = <<>> /\ output = <<>>)

C5_Witness ==
    /\ pc = "error"
    /\ err = "ValueError"
    /\ start_date = "2004-10-20"
    /\ end_date = "not a date"
    /\ num_results >= 1

\* C6: with advanced off and a first page of at least num_results >= 1
\* results (distinct results, when unique is set), the call yields exactly
\* num_results plain strings, the links of the first num_results (distinct,
\* when unique is set) containers of that page in document order, and needs
\* no second page.
C6_FirstPageSuffices ==
    (/\ num_results >= 1
     /\ ~advanced
     /\ Len(requests) = 1
     /\ requests[1].status = "ok"
     /\ pc \in {"while", "done"}
     /\ IF unique THEN Cardinality(Range(Links(result_block))) >= num_results
                  ELSE block_len >= num_results)
    => /\ Len(output) = num_results
       /\ \A i \in 1..Len(output) : output[i].kind = "str"
       /\ [i \in 1..Len(output) |-> output[i].value]
            = FirstN(IF unique THEN Distinct(Links(result_block), {})
                               ELSE Links(result_block), num_results)

C6_Witness ==
    /\ num_results = 2
    /\ ~advanced
    /\ unique
    /\ pc = "done"
    /\ Len(requests) = 1
    /\ Len(result_block) = 3
    /\ LinkOf(result_block[1]) = LinkOf(result_block[2])
    /\ LinkOf(result_block[3]) # LinkOf(result_block[1])
    /\ Len(output) = 2

\* C7: for a date d that parses, get_date_range_tbs(d, None),
\* get_date_range_tbs(d, d) and get_date_range_tbs(None, d) all return
\* cdr:1,cd_min:<f>,cd_max:<f> with f the formatted d.
C7_SingleDateUsedForBothEnds ==
    \A d \in DateInputs :
        (/\ Truthy(d)
         /\ parse(d).ok
         /\ pc # "call"
         /\ <<start_date, end_date>> \in {<<d, None>>, <<d, d>>, <<None, d>>})
        => /\ pc = "returned"
           /\ date_range_tbs
                = "cdr:1,cd_min:" \o strftime(parse(d))
                    \o ",cd_max:" \o strftime(parse(d))

C7_Witness ==
    /\ pc = "returned"
    /\ start_date = None
    /\ end_date = "1/2/2003"
    /\ date_range_tbs = "cdr:1,cd_min:01/02/2003,cd_max:01/02/2003"

\* the requests a call may still issue
RequestsLeft == (IF num_results >= 1 THEN num_results ELSE 0) - Len(requests)

\* the most steps the processing of one page takes
PageSteps == 2 * MaxPageLen + 2

\* a bound on the number of steps a call has left
Rank ==
    CASE pc = "start"   -> RequestsLeft * (PageSteps + 1) + 2
      [] pc = "while"   -> RequestsLeft * (PageSteps + 1) + 1
      [] pc = "for"     -> RequestsLeft * (PageSteps + 1) + 2
                              + 2 * (block_len - Len(result_block))
      [] pc = "yielded" -> RequestsLeft * (PageSteps + 1) + 2
                              + 2 * (block_len - Len(result_block)) + 1
      [] OTHER          -> 0

\* C8: the loop ends: every request but the last one is followed by at least
\* one new result, a call with num_results >= 1 issues at most num_results
\* requests, a call with num_results <= 0 issues none, and every step of the
\* call lowers a natural number, so that the call ends after finitely many
\* steps.
C8_LoopTerminates ==
    /\ [](/\ Len(requests) <= (IF num_results >= 1 THEN num_results ELSE 0)
          /\ Len(output) >= Len(requests) - 1
          /\ (pc = "while" /\ requests # <<>>) => Len(output) > page_base
          /\ Rank >= 0)
    /\ [][Rank' < Rank]_vars

C8_Witness ==
    /\ pc = "done"
    /\ num_results = 4
    /\ Len(requests) = 4
    /\ Len(output) = 4

\* C9: in a call with num_results > start_num, every request asks _req for
\* at least one result.
C9_WantedAtLeastOne ==
    num_results > start_num =>
        \A i \in 1..Len(requests) : requests[i].results >= 1

\* C10: every sleep is followed by another request of the same call: a call
\* that has ended has slept fewer times than it has issued requests (and not
\* at all if it issued none).
C10_SleepOnlyBeforeNextRequest ==
    pc = "done" => (sleeps = 0 \/ sleeps < Len(requests))

====
